---------------------------- MODULE Spec2Model ----------------------------
(***************************************************************************)
(* The re-entrant callback adapters of scipy/integrate/quadpack.h:         *)
(*   - the multivariate adapter  (init_c_multivariate, call_c_multivariate,*)
(*     restore_c_multivariate) over globalf / globalnargs / globalargs,    *)
(*   - the single-variable wrapper (funcwrapper_init, funcwrapper,         *)
(*     funcwrapper_restore) over globalbasef,                              *)
(*   - the ctypes pair (init_ctypes_func, restore_ctypes_func) over        *)
(*     quadpack_ctypes_function,                                           *)
(*   - the Python pair (quad_init_func, quad_restore_func) over            *)
(*     quadpack_python_function / quadpack_extra_arguments /               *)
(*     quadpack_jmpbuf.                                                    *)
(*                                                                         *)
(* The storage records (ZStorage, YStorage, QStorage) live on the callers' *)
(* call stacks; the model keeps them in the sequence "stack", innermost    *)
(* record last.  A double is an opaque token (a small natural number); a   *)
(* user function applied to its arguments is the term <<name, values it    *)
(* reads>>, so that "the result of f on these arguments" can be compared.  *)
(*                                                                         *)
(* The callers of the Python pair (the setjmp sites, the callback that     *)
(* evaluates the Python integrand and jumps when it raises) are not part   *)
(* of quadpack.h; setjmp, quad_function and unwind_site describe them as   *)
(* the design document does.  The installs are also given statement by     *)
(* statement (begin_install, install_step) for the properties that speak   *)
(* of their intermediate states.                                           *)
(***************************************************************************)
EXTENDS Integers, Sequences, FiniteSets, TLC

\* Deepest nesting of storage records explored.
MaxDepth == 3
\* Deepest nesting explored where callers also rewrite their buffers.
EvalDepth == 2
\* Deepest nesting explored with records of all four kinds.
AllDepth == 2
\* Doubles are the tokens 0..MaxVal.
MaxVal == 1
\* Deepest nesting of activations with unwind targets explored.
JmpDepth == 3
\* Deepest nesting explored where records are restored out of order.
OooDepth == 2
\* Most records alive at a time where pairs of different kinds interleave.
MixDepth == 2
\* Deepest nesting explored where installs run statement by statement.
StepDepth == 2

NULL == "NULL"
NPY_FAIL == "NPY_FAIL"
NPY_SUCCEED == "NPY_SUCCEED"

Doubles == 0..MaxVal

VARIABLES
    globalf,                    \* quadpack.h:51
    globalnargs,                \* quadpack.h:52
    globalargs,                 \* quadpack.h:50  (NULL or the name of a caller buffer)
    globalbasef,                \* quadpack.h:53
    quadpack_python_function,   \* quadpack.h:42
    quadpack_extra_arguments,   \* quadpack.h:43
    quadpack_jmpbuf,            \* quadpack.h:44
    quadpack_ctypes_function,   \* quadpack.h:46
    pyerr,                      \* the interpreter's error indicator (PyErr_Occurred)
    refcnt,                     \* reference counts of the Python argument objects
    heap,                       \* contents of the callers' parameter buffers
    stack,                      \* the storage records alive on the call stack
    last,                       \* the operation performed last and what it returned
    deepEval,                   \* history: an evaluation ran two or more records
                                \* deep since the outermost record was installed
    unwind,                     \* the abnormal unwind in progress, if any, and the
                                \* failures reported since the error was raised
    frame,                      \* the install being executed statement by
                                \* statement, if any (<<>> when none is)
    ooo                         \* history: the record restored last while a record
                                \* of its kind installed after it was still alive

globals == <<globalf, globalnargs, globalargs, globalbasef,
             quadpack_python_function, quadpack_extra_arguments,
             quadpack_jmpbuf, quadpack_ctypes_function>>
vars == <<globalf, globalnargs, globalargs, globalbasef,
          quadpack_python_function, quadpack_extra_arguments,
          quadpack_jmpbuf, quadpack_ctypes_function,
          pyerr, refcnt, heap, stack, last, deepEval, unwind, frame, ooo>>

\* The process-wide slots as one record (used for the snapshots kept beside
\* each storage record).
Snapshot ==
    [f |-> globalf, nargs |-> globalnargs, args |-> globalargs,
     basef |-> globalbasef, pyfun |-> quadpack_python_function,
     extra |-> quadpack_extra_arguments, jmp |-> quadpack_jmpbuf,
     ctypes |-> quadpack_ctypes_function]

----------------------------------------------------------------------------
(* Function pointers, caller buffers and the inputs of the operations.     *)

\* The n-ary functions a caller can install: the fixtures of testlib.c and
\* the wrapper's own entry point funcwrapper.
NaryFuncs == {"typical", "indefinite", "sin2", "funcwrapper"}
\* Plain scalar functions double f(double *x) handed to funcwrapper_init.
ScalarFuncs == {"h_sin", "h_cos"}

\* The callers' parameter buffers and their lengths.
Buffers == {"b1", "b2"}
BufLen(b) == IF b = "b1" THEN 1 ELSE 2
\* The array a pointer refers to (a null pointer refers to nothing).
Deref(p) == IF p = NULL THEN <<>> ELSE heap[p]

\* Python objects handed to quad_init_func as extra arguments: a tuple, a
\* list (not a tuple) and the empty tuple PyTuple_New(0) returns.
PyObjects == {"tup", "lst", "empty"}
PyTuple_Check(o) == o \in {"tup", "empty"}

\* ctypes function objects and the C pointer stored behind their b_ptr.
CtypesObjects == {"ct_null", "ct_sin", "ct_cos"}
\* quadpack.h:88-91
get_ctypes_function_pointer(obj) ==
    CASE obj = "ct_sin" -> "c_sin"
      [] obj = "ct_cos" -> "c_cos"
      [] OTHER -> NULL

----------------------------------------------------------------------------
(* Evaluation of the user functions.  An outcome is [val, calls]: the      *)
(* value returned and the invocations made, outermost first.  Undefined    *)
(* behaviour (a call through a null pointer, a read past the end of the    *)
(* argument array) yields one of UBOutcomes.                               *)

UBOutcomes == {[val |-> <<"crash">>, calls |-> <<>>],
               [val |-> <<"garbage">>, calls |-> <<>>]}

\* A scalar function double h(double *x) called with a pointer to array a:
\* it reads *x, the first element.
ApplyScalar(h, a) ==
    IF h = NULL \/ Len(a) < 1 THEN UBOutcomes
    ELSE {[val |-> <<h, a[1]>>, calls |-> <<[fn |-> h, n |-> "-", a |-> a]>>]}

\* A faulty variant of funcwrapper: the scalar function is handed the
\* element after the nargs leading ones.
funcwrapper_skips_nargs(nargs, args) ==
    {[val |-> o.val,
      calls |-> <<[fn |-> "funcwrapper", n |-> nargs, a |-> args]>> \o o.calls]
       : o \in ApplyScalar(globalbasef, SubSeq(args, nargs + 1, Len(args)))}

\* quadpack.h:215-221: return globalbasef(args).
funcwrapper(nargs, args) ==
    {[val |-> o.val,
      calls |-> <<[fn |-> "funcwrapper", n |-> nargs, a |-> args]>> \o o.calls]
       : o \in ApplyScalar(globalbasef, args)}

\* testlib.c:3-5: reads args[0], args[1], args[2].
typical(n, args) ==
    IF Len(args) < 3
    THEN {[val |-> o.val, calls |-> <<[fn |-> "typical", n |-> n, a |-> args]>>]
             : o \in UBOutcomes}
    ELSE {[val |-> <<"typical", args[1], args[2], args[3]>>,
           calls |-> <<[fn |-> "typical", n |-> n, a |-> args]>>]}

\* testlib.c:7-9: reads args[0].
indefinite(n, args) ==
    IF Len(args) < 1
    THEN {[val |-> o.val, calls |-> <<[fn |-> "indefinite", n |-> n, a |-> args]>>]
             : o \in UBOutcomes}
    ELSE {[val |-> <<"indefinite", args[1]>>,
           calls |-> <<[fn |-> "indefinite", n |-> n, a |-> args]>>]}

\* testlib.c:11-13: reads args[0].
sin2(n, args) ==
    IF Len(args) < 1
    THEN {[val |-> o.val, calls |-> <<[fn |-> "sin2", n |-> n, a |-> args]>>]
             : o \in UBOutcomes}
    ELSE {[val |-> <<"sin2", args[1]>>,
           calls |-> <<[fn |-> "sin2", n |-> n, a |-> args]>>]}

\* A call through a pointer to an n-ary function.
CallNary(f, n, args) ==
    CASE f = "typical" -> typical(n, args)
      [] f = "indefinite" -> indefinite(n, args)
      [] f = "sin2" -> sin2(n, args)
      [] f = "funcwrapper" -> funcwrapper(n, args)
      [] OTHER -> UBOutcomes

\* quadpack.h:180-185: evalArray[0] = *x, then evalArray[i] = globalargs[i-1]
\* for i = 1 .. globalnargs, built by the loop one element at a time.
\* A read of globalargs[i-1]; past the end of the buffer (or through a null
\* pointer) it is undefined, marked -1.
ReadArg(argsArr, i) == IF i \in 1..Len(argsArr) THEN argsArr[i] ELSE -1
\* Faulty variants of the copy loop: one stops an element early, one runs an
\* element too far.
RECURSIVE FillEvalArray_short(_, _, _, _)
FillEvalArray_short(evalArray, i, nargs, argsArr) ==
    IF i < nargs
    THEN FillEvalArray_short(Append(evalArray, ReadArg(argsArr, i)), i + 1, nargs,
                             argsArr)
    ELSE evalArray
RECURSIVE FillEvalArray_long(_, _, _, _)
FillEvalArray_long(evalArray, i, nargs, argsArr) ==
    IF i <= nargs + 1
    THEN FillEvalArray_long(Append(evalArray, ReadArg(argsArr, i)), i + 1, nargs,
                            argsArr)
    ELSE evalArray
RECURSIVE FillEvalArray(_, _, _, _)
FillEvalArray(evalArray, i, nargs, argsArr) ==
    IF i < nargs + 1
    THEN FillEvalArray(Append(evalArray, ReadArg(argsArr, i)), i + 1, nargs, argsArr)
    ELSE evalArray
\* A faulty variant of the array construction: the evaluation point is put
\* after the parameters.
EvalArray_x_last(x) ==
    Append(SubSeq(Deref(globalargs), 1, globalnargs), x)
EvalArray(x) == FillEvalArray(<<x>>, 1, globalnargs, Deref(globalargs))

\* quadpack.h:173-187: the outcomes of call_c_multivariate(&x).  A negative
\* globalnargs (an array of no elements) and a read past the buffer are
\* undefined behaviour.
CallCMultivariate(x) ==
    IF globalnargs < 0 \/ (\E i \in 1..Len(EvalArray(x)) : EvalArray(x)[i] = -1)
    THEN UBOutcomes
    ELSE CallNary(globalf, globalnargs, EvalArray(x))

----------------------------------------------------------------------------
(* The operations.                                                         *)

NoResult == [op |-> "none", ret |-> "-", in |-> "-", calls |-> <<>>]
\* No abnormal unwind is in progress and none has happened.
NoUnwind == [active |-> FALSE, depth |-> 0, reports |-> 0]
Crashed == last.op \in {"call_c_multivariate", "funcwrapper"} /\ last.ret = <<"crash">>

\* A caller allocates a storage record and hands it to an install; the model
\* keeps beside it whether the install succeeded and the process-wide slots
\* as they were just before it.
Push(kind, ok, store) ==
    /\ stack' = Append(stack, [kind |-> kind, ok |-> ok, store |-> store,
                               pre |-> Snapshot])
    /\ deepEval' = (Len(stack) > 0 /\ deepEval)
    /\ UNCHANGED <<unwind, frame, ooo>>
\* The caller's frame returns: the record at position i is gone.
Release(i) ==
    /\ stack' = [j \in 1..(Len(stack) - 1) |->
                    IF j < i THEN stack[j] ELSE stack[j + 1]]
    /\ ooo' = IF \E j \in (i + 1)..Len(stack) : stack[j].kind = stack[i].kind
              THEN <<stack[i]>> ELSE ooo
    /\ UNCHANGED <<deepEval, frame>>
Remove(i) ==
    /\ Release(i)
    /\ UNCHANGED unwind

\* A faulty variant of init_c_multivariate: the globals are set before the
\* null check.
init_c_multivariate_sets_first(f, n, args) ==
    LET store == [z_f0 |-> globalf, z_nargs0 |-> globalnargs, z_args0 |-> globalargs,
                  z_f1 |-> f, z_nargs1 |-> n, z_args1 |-> args]
        ok == store.z_f1 # NULL
    IN  /\ ~Crashed
        /\ globalf' = store.z_f1
        /\ globalnargs' = store.z_nargs1
        /\ globalargs' = store.z_args1
        /\ Push("Z", ok, store)
        /\ last' = [op |-> "init_c_multivariate",
                    ret |-> IF ok THEN NPY_SUCCEED ELSE NPY_FAIL,
                    in |-> <<f, n, args>>, calls |-> <<>>]
        /\ UNCHANGED <<globalbasef, quadpack_python_function, quadpack_extra_arguments,
                       quadpack_jmpbuf, quadpack_ctypes_function, pyerr, refcnt, heap>>

\* A faulty variant of init_c_multivariate: the previous half of the record
\* is filled after the globals were overwritten.
init_c_multivariate_saves_late(f, n, args) ==
    LET ok == f # NULL
        store == [z_f0 |-> IF ok THEN f ELSE globalf,
                  z_nargs0 |-> IF ok THEN n ELSE globalnargs,
                  z_args0 |-> IF ok THEN args ELSE globalargs,
                  z_f1 |-> f, z_nargs1 |-> n, z_args1 |-> args]
    IN  /\ ~Crashed
        /\ IF ok
           THEN /\ globalf' = store.z_f1
                /\ globalnargs' = store.z_nargs1
                /\ globalargs' = store.z_args1
           ELSE UNCHANGED <<globalf, globalnargs, globalargs>>
        /\ Push("Z", ok, store)
        /\ last' = [op |-> "init_c_multivariate",
                    ret |-> IF ok THEN NPY_SUCCEED ELSE NPY_FAIL,
                    in |-> <<f, n, args>>, calls |-> <<>>]
        /\ UNCHANGED <<globalbasef, quadpack_python_function, quadpack_extra_arguments,
                       quadpack_jmpbuf, quadpack_ctypes_function, pyerr, refcnt, heap>>

\* A faulty variant of init_c_multivariate: the parameter array is not
\* installed.
init_c_multivariate_skips_args(f, n, args) ==
    LET store == [z_f0 |-> globalf, z_nargs0 |-> globalnargs, z_args0 |-> globalargs,
                  z_f1 |-> f, z_nargs1 |-> n, z_args1 |-> args]
        ok == store.z_f1 # NULL
    IN  /\ ~Crashed
        /\ IF ok
           THEN /\ globalf' = store.z_f1
                /\ globalnargs' = store.z_nargs1
                /\ UNCHANGED globalargs
           ELSE UNCHANGED <<globalf, globalnargs, globalargs>>
        /\ Push("Z", ok, store)
        /\ last' = [op |-> "init_c_multivariate",
                    ret |-> IF ok THEN NPY_SUCCEED ELSE NPY_FAIL,
                    in |-> <<f, n, args>>, calls |-> <<>>]
        /\ UNCHANGED <<globalbasef, quadpack_python_function, quadpack_extra_arguments,
                       quadpack_jmpbuf, quadpack_ctypes_function, pyerr, refcnt, heap>>

\* A faulty variant of init_c_multivariate: the first parameter of the
\* caller's buffer is cleared on install.
init_c_multivariate_zeroes_args(f, n, args) ==
    LET store == [z_f0 |-> globalf, z_nargs0 |-> globalnargs, z_args0 |-> globalargs,
                  z_f1 |-> f, z_nargs1 |-> n, z_args1 |-> args]
        ok == store.z_f1 # NULL
    IN  /\ ~Crashed
        /\ IF ok
           THEN /\ globalf' = store.z_f1
                /\ globalnargs' = store.z_nargs1
                /\ globalargs' = store.z_args1
           ELSE UNCHANGED <<globalf, globalnargs, globalargs>>
        /\ heap' = IF ok /\ args # NULL THEN [heap EXCEPT ![args][1] = 0] ELSE heap
        /\ Push("Z", ok, store)
        /\ last' = [op |-> "init_c_multivariate",
                    ret |-> IF ok THEN NPY_SUCCEED ELSE NPY_FAIL,
                    in |-> <<f, n, args>>, calls |-> <<>>]
        /\ UNCHANGED <<globalbasef, quadpack_python_function, quadpack_extra_arguments,
                       quadpack_jmpbuf, quadpack_ctypes_function, pyerr, refcnt>>

\* quadpack.h:144-171
init_c_multivariate(f, n, args) ==
    LET store == [z_f0 |-> globalf, z_nargs0 |-> globalnargs, z_args0 |-> globalargs,
                  z_f1 |-> f, z_nargs1 |-> n, z_args1 |-> args]
        ok == store.z_f1 # NULL
    IN  /\ ~Crashed
        /\ IF ok
           THEN /\ globalf' = store.z_f1
                /\ globalnargs' = store.z_nargs1
                /\ globalargs' = store.z_args1
           ELSE UNCHANGED <<globalf, globalnargs, globalargs>>
        /\ Push("Z", ok, store)
        /\ last' = [op |-> "init_c_multivariate",
                    ret |-> IF ok THEN NPY_SUCCEED ELSE NPY_FAIL,
                    in |-> <<f, n, args>>, calls |-> <<>>]
        /\ UNCHANGED <<globalbasef, quadpack_python_function, quadpack_extra_arguments,
                       quadpack_jmpbuf, quadpack_ctypes_function, pyerr, refcnt, heap>>

\* A faulty variant of restore_c_multivariate: the saved arity is not written
\* back.
restore_c_multivariate_keeps_nargs(i) ==
    /\ ~Crashed
    /\ i \in 1..Len(stack)
    /\ stack[i].kind = "Z"
    /\ globalf' = stack[i].store.z_f0
    /\ globalargs' = stack[i].store.z_args0
    /\ Remove(i)
    /\ last' = [op |-> "restore_c_multivariate", ret |-> "-", in |-> <<i, stack[i].ok>>,
                calls |-> <<>>]
    /\ UNCHANGED <<globalnargs, globalbasef, quadpack_python_function,
                   quadpack_extra_arguments, quadpack_jmpbuf,
                   quadpack_ctypes_function, pyerr, refcnt, heap>>

\* quadpack.h:189-194, on the record at position i, which is then released.
restore_c_multivariate(i) ==
    /\ ~Crashed
    /\ i \in 1..Len(stack)
    /\ stack[i].kind = "Z"
    /\ globalf' = stack[i].store.z_f0
    /\ globalnargs' = stack[i].store.z_nargs0
    /\ globalargs' = stack[i].store.z_args0
    /\ Remove(i)
    /\ last' = [op |-> "restore_c_multivariate", ret |-> "-", in |-> <<i, stack[i].ok>>,
                calls |-> <<>>]
    /\ UNCHANGED <<globalbasef, quadpack_python_function, quadpack_extra_arguments,
                   quadpack_jmpbuf, quadpack_ctypes_function, pyerr, refcnt, heap>>

\* A faulty variant of call_c_multivariate: the evaluation point is stored
\* in the first element of the active parameter array as well.
call_c_multivariate_writes_args(x) ==
    /\ ~Crashed
    /\ \E o \in CallCMultivariate(x) :
          last' = [op |-> "call_c_multivariate", ret |-> o.val, in |-> x,
                   calls |-> o.calls]
    /\ heap' = IF globalargs # NULL /\ globalnargs > 0
               THEN [heap EXCEPT ![globalargs][1] = x] ELSE heap
    /\ deepEval' = (deepEval \/ Len(stack) >= 2)
    /\ UNCHANGED <<unwind, frame, ooo>>
    /\ UNCHANGED <<globalf, globalnargs, globalargs, globalbasef,
                   quadpack_python_function, quadpack_extra_arguments,
                   quadpack_jmpbuf, quadpack_ctypes_function, pyerr, refcnt,
                   stack>>

\* quadpack.h:173-187
call_c_multivariate(x) ==
    /\ ~Crashed
    /\ \E o \in CallCMultivariate(x) :
          last' = [op |-> "call_c_multivariate", ret |-> o.val, in |-> x,
                   calls |-> o.calls]
    /\ deepEval' = (deepEval \/ Len(stack) >= 2)
    /\ UNCHANGED <<unwind, frame, ooo>>
    /\ UNCHANGED <<globalf, globalnargs, globalargs, globalbasef,
                   quadpack_python_function, quadpack_extra_arguments,
                   quadpack_jmpbuf, quadpack_ctypes_function, pyerr, refcnt,
                   heap, stack>>

\* quadpack.h:204-213
funcwrapper_init(f) ==
    LET store == [y_func0 |-> globalbasef, y_func1 |-> f]
    IN  /\ ~Crashed
        /\ globalbasef' = store.y_func1
        /\ Push("Y", TRUE, store)
        /\ last' = [op |-> "funcwrapper_init", ret |-> "-", in |-> f, calls |-> <<>>]
        /\ UNCHANGED <<globalf, globalnargs, globalargs, quadpack_python_function,
                       quadpack_extra_arguments, quadpack_jmpbuf,
                       quadpack_ctypes_function, pyerr, refcnt, heap>>

\* A faulty variant of funcwrapper_restore: the saved function is not
\* written back.
funcwrapper_restore_keeps(i) ==
    /\ ~Crashed
    /\ i \in 1..Len(stack)
    /\ stack[i].kind = "Y"
    /\ Remove(i)
    /\ last' = [op |-> "funcwrapper_restore", ret |-> "-", in |-> <<i, stack[i].ok>>,
                calls |-> <<>>]
    /\ UNCHANGED <<globalf, globalnargs, globalargs, globalbasef,
                   quadpack_python_function, quadpack_extra_arguments,
                   quadpack_jmpbuf, quadpack_ctypes_function, pyerr, refcnt, heap>>

\* quadpack.h:223-226, on the record at position i, which is then released.
funcwrapper_restore(i) ==
    /\ ~Crashed
    /\ i \in 1..Len(stack)
    /\ stack[i].kind = "Y"
    /\ globalbasef' = stack[i].store.y_func0
    /\ Remove(i)
    /\ last' = [op |-> "funcwrapper_restore", ret |-> "-", in |-> <<i, stack[i].ok>>,
                calls |-> <<>>]
    /\ UNCHANGED <<globalf, globalnargs, globalargs, quadpack_python_function,
                   quadpack_extra_arguments, quadpack_jmpbuf,
                   quadpack_ctypes_function, pyerr, refcnt, heap>>

\* quadpack.h:215-221, called directly with an argument array.
funcwrapper_call(nargs, args) ==
    /\ ~Crashed
    /\ \E o \in funcwrapper(nargs, args) :
          last' = [op |-> "funcwrapper", ret |-> o.val, in |-> <<nargs, args>>,
                   calls |-> o.calls]
    /\ deepEval' = (deepEval \/ Len(stack) >= 2)
    /\ UNCHANGED <<unwind, frame, ooo>>
    /\ UNCHANGED <<globalf, globalnargs, globalargs, globalbasef,
                   quadpack_python_function, quadpack_extra_arguments,
                   quadpack_jmpbuf, quadpack_ctypes_function, pyerr, refcnt,
                   heap, stack>>

\* The owner of a parameter buffer stores a new value in one of its elements.
CallerWrite(b, i, v) ==
    /\ ~Crashed
    /\ heap[b][i] # v
    /\ heap' = [heap EXCEPT ![b][i] = v]
    /\ last' = [op |-> "caller_write", ret |-> "-", in |-> b, calls |-> <<>>]
    /\ UNCHANGED <<globalf, globalnargs, globalargs, globalbasef,
                   quadpack_python_function, quadpack_extra_arguments,
                   quadpack_jmpbuf, quadpack_ctypes_function, pyerr, refcnt, stack,
                   deepEval, unwind, frame, ooo>>

\* A faulty variant of quad_init_func: the reference taken on arg is not
\* dropped when arg turns out not to be a tuple.
quad_init_func_leaks(fun, arg, alloc_ok) ==
    LET made == IF arg = NULL THEN (IF alloc_ok THEN "empty" ELSE NULL) ELSE arg
        store == [global0 |-> quadpack_python_function,
                  global1 |-> quadpack_extra_arguments,
                  jmp |-> quadpack_jmpbuf, arg |-> made]
        nomem == made = NULL
        badarg == ~nomem /\ ~PyTuple_Check(made)
        ok == ~nomem /\ ~badarg
    IN  /\ ~Crashed
        /\ arg # NULL => refcnt[arg] > 0
        /\ refcnt' = IF nomem THEN refcnt
                     ELSE [refcnt EXCEPT ![made] = @ + 1]
        /\ pyerr' = (pyerr \/ nomem \/ badarg)
        /\ IF ok
           THEN /\ quadpack_python_function' = fun
                /\ quadpack_extra_arguments' = store.arg
           ELSE UNCHANGED <<quadpack_python_function, quadpack_extra_arguments>>
        /\ Push("Q", ok, store)
        /\ last' = [op |-> "quad_init_func",
                    ret |-> IF ok THEN NPY_SUCCEED ELSE NPY_FAIL,
                    in |-> <<fun, arg>>, calls |-> <<>>]
        /\ UNCHANGED <<globalf, globalnargs, globalargs, globalbasef,
                       quadpack_jmpbuf, quadpack_ctypes_function, heap>>


\* quadpack.h:93-114.  alloc_ok tells whether PyTuple_New(0) finds memory.
quad_init_func(fun, arg, alloc_ok) ==
    LET made == IF arg = NULL THEN (IF alloc_ok THEN "empty" ELSE NULL) ELSE arg
        store == [global0 |-> quadpack_python_function,
                  global1 |-> quadpack_extra_arguments,
                  jmp |-> quadpack_jmpbuf, arg |-> made]
        nomem == made = NULL
        badarg == ~nomem /\ ~PyTuple_Check(made)
        ok == ~nomem /\ ~badarg
    IN  /\ ~Crashed
        /\ arg # NULL => refcnt[arg] > 0
        /\ refcnt' = IF nomem \/ badarg THEN refcnt
                     ELSE [refcnt EXCEPT ![made] = @ + 1]
        /\ pyerr' = (pyerr \/ nomem \/ badarg)
        /\ IF ok
           THEN /\ quadpack_python_function' = fun
                /\ quadpack_extra_arguments' = store.arg
           ELSE UNCHANGED <<quadpack_python_function, quadpack_extra_arguments>>
        /\ Push("Q", ok, store)
        /\ last' = [op |-> "quad_init_func",
                    ret |-> IF ok THEN NPY_SUCCEED ELSE NPY_FAIL,
                    in |-> <<fun, arg>>, calls |-> <<>>]
        /\ UNCHANGED <<globalf, globalnargs, globalargs, globalbasef,
                       quadpack_jmpbuf, quadpack_ctypes_function, heap>>

\* A faulty variant of quad_restore_func: a pending error is cleared even
\* when the caller passed no ierr.
quad_restore_func_clears_always(i, ierr) ==
    /\ ~Crashed
    /\ i \in 1..Len(stack)
    /\ stack[i].kind = "Q"
    /\ quadpack_python_function' = stack[i].store.global0
    /\ quadpack_extra_arguments' = stack[i].store.global1
    /\ quadpack_jmpbuf' = stack[i].store.jmp
    /\ refcnt' = IF stack[i].store.arg = NULL THEN refcnt
                 ELSE [refcnt EXCEPT ![stack[i].store.arg] = @ - 1]
    /\ pyerr' = FALSE
    /\ Release(i)
    /\ unwind' = IF unwind.active
                 THEN [active |-> Len(stack) > 1, depth |-> unwind.depth,
                       reports |-> unwind.reports
                                     + (IF ierr # NULL /\ pyerr THEN 1 ELSE 0)]
                 ELSE unwind
    /\ last' = [op |-> "quad_restore_func",
                ret |-> IF ierr # NULL /\ pyerr THEN 80 ELSE 0,
                in |-> <<i, stack[i].ok, ierr>>, calls |-> <<>>]
    /\ UNCHANGED <<globalf, globalnargs, globalargs, globalbasef,
                   quadpack_ctypes_function, heap>>


\* A faulty variant of quad_restore_func: the saved unwind target is not
\* copied back.
quad_restore_func_keeps_jmp(i, ierr) ==
    /\ ~Crashed
    /\ i \in 1..Len(stack)
    /\ stack[i].kind = "Q"
    /\ quadpack_python_function' = stack[i].store.global0
    /\ quadpack_extra_arguments' = stack[i].store.global1
    /\ UNCHANGED quadpack_jmpbuf
    /\ refcnt' = IF stack[i].store.arg = NULL THEN refcnt
                 ELSE [refcnt EXCEPT ![stack[i].store.arg] = @ - 1]
    /\ pyerr' = IF ierr # NULL THEN FALSE ELSE pyerr
    /\ Release(i)
    /\ unwind' = IF unwind.active
                 THEN [active |-> Len(stack) > 1, depth |-> unwind.depth,
                       reports |-> unwind.reports
                                     + (IF ierr # NULL /\ pyerr THEN 1 ELSE 0)]
                 ELSE unwind
    /\ last' = [op |-> "quad_restore_func",
                ret |-> IF ierr # NULL /\ pyerr THEN 80 ELSE 0,
                in |-> <<i, stack[i].ok, ierr>>, calls |-> <<>>]
    /\ UNCHANGED <<globalf, globalnargs, globalargs, globalbasef,
                   quadpack_ctypes_function, heap>>


\* A faulty variant of quad_restore_func: the error is reported but left
\* pending.
quad_restore_func_keeps_error(i, ierr) ==
    /\ ~Crashed
    /\ i \in 1..Len(stack)
    /\ stack[i].kind = "Q"
    /\ quadpack_python_function' = stack[i].store.global0
    /\ quadpack_extra_arguments' = stack[i].store.global1
    /\ quadpack_jmpbuf' = stack[i].store.jmp
    /\ refcnt' = IF stack[i].store.arg = NULL THEN refcnt
                 ELSE [refcnt EXCEPT ![stack[i].store.arg] = @ - 1]
    /\ UNCHANGED pyerr
    /\ Release(i)
    /\ unwind' = IF unwind.active
                 THEN [active |-> Len(stack) > 1, depth |-> unwind.depth,
                       reports |-> unwind.reports
                                     + (IF ierr # NULL /\ pyerr THEN 1 ELSE 0)]
                 ELSE unwind
    /\ last' = [op |-> "quad_restore_func",
                ret |-> IF ierr # NULL /\ pyerr THEN 80 ELSE 0,
                in |-> <<i, stack[i].ok, ierr>>, calls |-> <<>>]
    /\ UNCHANGED <<globalf, globalnargs, globalargs, globalbasef,
                   quadpack_ctypes_function, heap>>


\* quadpack.h:116-128, on the record at position i, which is then released.
\* ierr is NULL or points to the caller's int, which holds 0; last.ret is
\* the value of that int afterwards.
quad_restore_func(i, ierr) ==
    /\ ~Crashed
    /\ i \in 1..Len(stack)
    /\ stack[i].kind = "Q"
    /\ quadpack_python_function' = stack[i].store.global0
    /\ quadpack_extra_arguments' = stack[i].store.global1
    /\ quadpack_jmpbuf' = stack[i].store.jmp
    /\ refcnt' = IF stack[i].store.arg = NULL THEN refcnt
                 ELSE [refcnt EXCEPT ![stack[i].store.arg] = @ - 1]
    /\ pyerr' = IF ierr # NULL THEN FALSE ELSE pyerr
    /\ Release(i)
    /\ unwind' = IF unwind.active
                 THEN [active |-> Len(stack) > 1, depth |-> unwind.depth,
                       reports |-> unwind.reports
                                     + (IF ierr # NULL /\ pyerr THEN 1 ELSE 0)]
                 ELSE unwind
    /\ last' = [op |-> "quad_restore_func",
                ret |-> IF ierr # NULL /\ pyerr THEN 80 ELSE 0,
                in |-> <<i, stack[i].ok, ierr>>, calls |-> <<>>]
    /\ UNCHANGED <<globalf, globalnargs, globalargs, globalbasef,
                   quadpack_ctypes_function, heap>>

\* The unwind target a caller arms for the activation at position k of the
\* stack, and the position of the live activation a target belongs to (0 when
\* its frame is gone).
Target(k) == "jmp" \o ToString(k)
Site(jb) ==
    IF \E k \in 1..Len(stack) : Target(k) = jb
    THEN CHOOSE k \in 1..Len(stack) : Target(k) = jb
    ELSE 0
\* The innermost activation is a successful quad_init_func whose caller has
\* armed its unwind target.
Armed ==
    /\ Len(stack) > 0
    /\ stack[Len(stack)].kind = "Q"
    /\ stack[Len(stack)].ok
    /\ quadpack_jmpbuf = Target(Len(stack))

\* The caller of a successful quad_init_func activates its own unwind target
\* (setjmp(quadpack_jmpbuf) returning 0) before it starts the foreign routine.
setjmp ==
    /\ Len(stack) > 0
    /\ stack[Len(stack)].kind = "Q"
    /\ stack[Len(stack)].ok
    /\ quadpack_jmpbuf # Target(Len(stack))
    /\ quadpack_jmpbuf' = Target(Len(stack))
    /\ last' = [op |-> "setjmp", ret |-> "-", in |-> Len(stack), calls |-> <<>>]
    /\ UNCHANGED <<globalf, globalnargs, globalargs, globalbasef,
                   quadpack_python_function, quadpack_extra_arguments,
                   quadpack_ctypes_function, pyerr, refcnt, heap, stack,
                   deepEval, unwind, frame, ooo>>

\* The callback the foreign routine evaluates for a Python integrand: it
\* calls quadpack_python_function with (x,) + quadpack_extra_arguments.  When
\* the call raises, the error is recorded and control leaves through the
\* active unwind target (longjmp(quadpack_jmpbuf, 1)).
quad_function(x, raises) ==
    /\ Armed
    /\ last' = [op |-> "quad_function",
                ret |-> IF raises THEN <<"raised">>
                        ELSE <<quadpack_python_function, x, quadpack_extra_arguments>>,
                in |-> x,
                calls |-> <<[fn |-> quadpack_python_function, n |-> "-",
                             a |-> <<x, quadpack_extra_arguments>>]>>]
    /\ pyerr' = (pyerr \/ raises)
    /\ unwind' = IF raises
                 THEN [active |-> TRUE, depth |-> Len(stack), reports |-> 0]
                 ELSE unwind
    /\ UNCHANGED <<globalf, globalnargs, globalargs, globalbasef,
                   quadpack_python_function, quadpack_extra_arguments,
                   quadpack_jmpbuf, quadpack_ctypes_function, refcnt, heap, stack,
                   deepEval, frame, ooo>>

\* The jump lands at the site that armed the active target, which restores
\* its record: an intermediate site passes no ierr and fails in turn, so the
\* error travels on through the target just restored; the outermost site
\* passes its ierr.  A target whose frame is gone is undefined behaviour.
unwind_site ==
    /\ unwind.active
    /\ IF Site(quadpack_jmpbuf) # 0
       THEN quad_restore_func(Site(quadpack_jmpbuf),
                              IF Site(quadpack_jmpbuf) = 1 THEN "ierr" ELSE NULL)
       ELSE /\ last' = [op |-> "longjmp", ret |-> <<"crash">>,
                        in |-> quadpack_jmpbuf, calls |-> <<>>]
            /\ UNCHANGED <<globalf, globalnargs, globalargs, globalbasef,
                           quadpack_python_function, quadpack_extra_arguments,
                           quadpack_jmpbuf, quadpack_ctypes_function, pyerr,
                           refcnt, heap, stack, deepEval, unwind, frame, ooo>>

\* A faulty variant of init_ctypes_func: the current function is saved only
\* once the new pointer is known to be non-null.
init_ctypes_func_checks_first(fun) ==
    LET ok == get_ctypes_function_pointer(fun) # NULL
        store == [global0 |-> IF ok THEN quadpack_ctypes_function ELSE "uninit",
                  global1 |-> get_ctypes_function_pointer(fun),
                  jmp |-> "uninit", arg |-> "uninit"]
    IN  /\ ~Crashed
        /\ IF ok
           THEN quadpack_ctypes_function' = store.global1
           ELSE UNCHANGED quadpack_ctypes_function
        /\ Push("C", ok, store)
        /\ last' = [op |-> "init_ctypes_func",
                    ret |-> IF ok THEN NPY_SUCCEED ELSE NPY_FAIL,
                    in |-> fun, calls |-> <<>>]
        /\ UNCHANGED <<globalf, globalnargs, globalargs, globalbasef,
                       quadpack_python_function, quadpack_extra_arguments,
                       quadpack_jmpbuf, pyerr, refcnt, heap>>

\* quadpack.h:130-137
init_ctypes_func(fun) ==
    LET store == [global0 |-> quadpack_ctypes_function,
                  global1 |-> get_ctypes_function_pointer(fun),
                  jmp |-> "uninit", arg |-> "uninit"]
        ok == store.global1 # NULL
    IN  /\ ~Crashed
        /\ IF ok
           THEN quadpack_ctypes_function' = store.global1
           ELSE UNCHANGED quadpack_ctypes_function
        /\ Push("C", ok, store)
        /\ last' = [op |-> "init_ctypes_func",
                    ret |-> IF ok THEN NPY_SUCCEED ELSE NPY_FAIL,
                    in |-> fun, calls |-> <<>>]
        /\ UNCHANGED <<globalf, globalnargs, globalargs, globalbasef,
                       quadpack_python_function, quadpack_extra_arguments,
                       quadpack_jmpbuf, pyerr, refcnt, heap>>

\* A faulty variant of restore_ctypes_func: the saved pointer is written to
\* the slot of the Python activations, which share the record type.
restore_ctypes_func_as_quad(i) ==
    /\ ~Crashed
    /\ i \in 1..Len(stack)
    /\ stack[i].kind = "C"
    /\ quadpack_python_function' = stack[i].store.global0
    /\ Remove(i)
    /\ last' = [op |-> "restore_ctypes_func", ret |-> "-", in |-> <<i, stack[i].ok>>,
                calls |-> <<>>]
    /\ UNCHANGED <<globalf, globalnargs, globalargs, globalbasef,
                   quadpack_ctypes_function, quadpack_extra_arguments,
                   quadpack_jmpbuf, pyerr, refcnt, heap>>

\* quadpack.h:139-142, on the record at position i, which is then released.
restore_ctypes_func(i) ==
    /\ ~Crashed
    /\ i \in 1..Len(stack)
    /\ stack[i].kind = "C"
    /\ quadpack_ctypes_function' = stack[i].store.global0
    /\ Remove(i)
    /\ last' = [op |-> "restore_ctypes_func", ret |-> "-", in |-> <<i, stack[i].ok>>,
                calls |-> <<>>]
    /\ UNCHANGED <<globalf, globalnargs, globalargs, globalbasef,
                   quadpack_python_function, quadpack_extra_arguments,
                   quadpack_jmpbuf, pyerr, refcnt, heap>>

\* A caller whose install reported NPY_FAIL returns without calling restore:
\* the record at position i is released untouched.
Discard(i) ==
    /\ ~Crashed
    /\ i \in 1..Len(stack)
    /\ ~stack[i].ok
    /\ Remove(i)
    /\ last' = [op |-> "discard", ret |-> "-", in |-> <<i, stack[i].ok>>,
                calls |-> <<>>]
    /\ UNCHANGED <<globalf, globalnargs, globalargs, globalbasef,
                   quadpack_python_function, quadpack_extra_arguments,
                   quadpack_jmpbuf, quadpack_ctypes_function, pyerr, refcnt, heap>>

----------------------------------------------------------------------------
(* The installs statement by statement.  A statement copies a value into a *)
(* field of the record or into a global, or is one of the checks of the    *)
(* source; a place is <<"global", name>>, <<"store", field>> or            *)
(* <<"in", parameter>>.                                                    *)

Copy(dst, src) == [op |-> "copy", dst |-> dst, src |-> src]
Stmt(op, src) == [op |-> op, dst |-> <<"-", "-">>, src |-> src]

\* A faulty variant of init_c_multivariate: the globals are overwritten
\* before the current ones are stored in the record.
init_c_multivariate_code_overwrites_first ==
    <<Copy(<<"store", "z_f1">>, <<"in", "f">>),
      Copy(<<"store", "z_nargs1">>, <<"in", "n">>),
      Copy(<<"store", "z_args1">>, <<"in", "args">>),
      Stmt("fail_if_null", <<"store", "z_f1">>),
      Copy(<<"global", "globalf">>, <<"store", "z_f1">>),
      Copy(<<"global", "globalnargs">>, <<"store", "z_nargs1">>),
      Copy(<<"global", "globalargs">>, <<"store", "z_args1">>),
      Copy(<<"store", "z_f0">>, <<"global", "globalf">>),
      Copy(<<"store", "z_nargs0">>, <<"global", "globalnargs">>),
      Copy(<<"store", "z_args0">>, <<"global", "globalargs">>),
      Stmt("return", <<"-", "-">>)>>

\* quadpack.h:155-170
init_c_multivariate_code ==
    <<Copy(<<"store", "z_f0">>, <<"global", "globalf">>),
      Copy(<<"store", "z_nargs0">>, <<"global", "globalnargs">>),
      Copy(<<"store", "z_args0">>, <<"global", "globalargs">>),
      Copy(<<"store", "z_f1">>, <<"in", "f">>),
      Copy(<<"store", "z_nargs1">>, <<"in", "n">>),
      Copy(<<"store", "z_args1">>, <<"in", "args">>),
      Stmt("fail_if_null", <<"store", "z_f1">>),
      Copy(<<"global", "globalf">>, <<"store", "z_f1">>),
      Copy(<<"global", "globalnargs">>, <<"store", "z_nargs1">>),
      Copy(<<"global", "globalargs">>, <<"store", "z_args1">>),
      Stmt("return", <<"-", "-">>)>>

\* quadpack.h:207-212
funcwrapper_init_code ==
    <<Copy(<<"store", "y_func0">>, <<"global", "globalbasef">>),
      Copy(<<"store", "y_func1">>, <<"in", "f">>),
      Copy(<<"global", "globalbasef">>, <<"store", "y_func1">>),
      Stmt("return", <<"-", "-">>)>>

\* quadpack.h:132-136
init_ctypes_func_code ==
    <<Copy(<<"store", "global0">>, <<"global", "quadpack_ctypes_function">>),
      Stmt("resolve", <<"in", "fun">>),
      Stmt("fail_if_null", <<"store", "global1">>),
      Copy(<<"global", "quadpack_ctypes_function">>, <<"store", "global1">>),
      Stmt("return", <<"-", "-">>)>>

\* quadpack.h:95-113
quad_init_func_code ==
    <<Copy(<<"store", "global0">>, <<"global", "quadpack_python_function">>),
      Copy(<<"store", "global1">>, <<"global", "quadpack_extra_arguments">>),
      Copy(<<"store", "jmp">>, <<"global", "quadpack_jmpbuf">>),
      Copy(<<"store", "arg">>, <<"in", "arg">>),
      Stmt("new_or_incref", <<"store", "arg">>),
      Stmt("tuple_check", <<"store", "arg">>),
      Copy(<<"global", "quadpack_python_function">>, <<"in", "fun">>),
      Copy(<<"global", "quadpack_extra_arguments">>, <<"store", "arg">>),
      Stmt("return", <<"-", "-">>)>>

InstallCode(kind) ==
    CASE kind = "Z" -> init_c_multivariate_code
      [] kind = "Y" -> funcwrapper_init_code
      [] kind = "C" -> init_ctypes_func_code
      [] kind = "Q" -> quad_init_func_code
InstallName(kind) ==
    CASE kind = "Z" -> "init_c_multivariate"
      [] kind = "Y" -> "funcwrapper_init"
      [] kind = "C" -> "init_ctypes_func"
      [] kind = "Q" -> "quad_init_func"
\* The record a caller hands to an install: memory not yet written (an int
\* not yet written is shown as -1).
FreshStore(kind) ==
    CASE kind = "Z" -> [z_f0 |-> "uninit", z_nargs0 |-> -1, z_args0 |-> "uninit",
                        z_f1 |-> "uninit", z_nargs1 |-> -1, z_args1 |-> "uninit"]
      [] kind = "Y" -> [y_func0 |-> "uninit", y_func1 |-> "uninit"]
      [] OTHER -> [global0 |-> "uninit", global1 |-> "uninit", jmp |-> "uninit",
                   arg |-> "uninit"]
\* The field of Snapshot that holds a global.
GField ==
    [globalf |-> "f", globalnargs |-> "nargs", globalargs |-> "args",
     globalbasef |-> "basef", quadpack_python_function |-> "pyfun",
     quadpack_extra_arguments |-> "extra", quadpack_jmpbuf |-> "jmp",
     quadpack_ctypes_function |-> "ctypes"]
\* The value at a place, for the install fr.
Val(fr, place) ==
    CASE place[1] = "global" -> Snapshot[GField[place[2]]]
      [] place[1] = "store" -> fr.store[place[2]]
      [] place[1] = "in" -> fr.in[place[2]]

\* The effect of statement st of the install fr: the globals, the record,
\* the reference counts and the error indicator afterwards, and whether the
\* install goes on ("no") or returns NPY_SUCCEED ("ok") or NPY_FAIL ("fail").
Exec(fr, st) ==
    LET same == [g |-> Snapshot, store |-> fr.store, refcnt |-> refcnt,
                 pyerr |-> pyerr, done |-> "no"]
    IN  CASE st.op = "copy" /\ st.dst[1] = "global"
               -> [same EXCEPT !.g[GField[st.dst[2]]] = Val(fr, st.src)]
          [] st.op = "copy" /\ st.dst[1] = "store"
               -> [same EXCEPT !.store[st.dst[2]] = Val(fr, st.src)]
          [] st.op = "resolve"
               -> [same EXCEPT
                     !.store.global1 = get_ctypes_function_pointer(Val(fr, st.src))]
          [] st.op = "fail_if_null"
               -> IF Val(fr, st.src) = NULL THEN [same EXCEPT !.done = "fail"]
                  ELSE same
          [] st.op = "new_or_incref"
               -> IF Val(fr, st.src) = NULL
                  THEN IF fr.in.alloc_ok
                       THEN [same EXCEPT !.store.arg = "empty",
                                         !.refcnt["empty"] = @ + 1]
                       ELSE [same EXCEPT !.pyerr = TRUE, !.done = "fail"]
                  ELSE [same EXCEPT !.refcnt[Val(fr, st.src)] = @ + 1]
          [] st.op = "tuple_check"
               -> IF PyTuple_Check(Val(fr, st.src)) THEN same
                  ELSE [same EXCEPT !.pyerr = TRUE,
                                    !.refcnt[Val(fr, st.src)] = @ - 1,
                                    !.done = "fail"]
          [] st.op = "return" -> [same EXCEPT !.done = "ok"]

\* The arguments of an install as the operations record them in last.
LastIn(kind, in) ==
    CASE kind = "Z" -> <<in.f, in.n, in.args>>
      [] kind = "Y" -> in.f
      [] kind = "C" -> in.fun
      [] kind = "Q" -> <<in.fun, in.arg>>

\* A caller hands a fresh record to an install, which starts at its first
\* statement.
begin_install(kind, in) ==
    /\ ~Crashed
    /\ frame = <<>>
    /\ (kind = "Q" /\ in.arg # NULL) => refcnt[in.arg] > 0
    /\ frame' = <<[kind |-> kind, pc |-> 1, in |-> in, store |-> FreshStore(kind),
                   pre |-> Snapshot]>>
    /\ UNCHANGED <<globalf, globalnargs, globalargs, globalbasef,
                   quadpack_python_function, quadpack_extra_arguments,
                   quadpack_jmpbuf, quadpack_ctypes_function, pyerr, refcnt, heap,
                   stack, last, deepEval, unwind, ooo>>

\* The install in progress executes its next statement; when it returns,
\* the record is the caller's and the result is known.
install_step ==
    /\ frame # <<>>
    /\ LET fr == frame[1]
           e == Exec(fr, InstallCode(fr.kind)[fr.pc])
       IN  /\ globalf' = e.g.f
           /\ globalnargs' = e.g.nargs
           /\ globalargs' = e.g.args
           /\ globalbasef' = e.g.basef
           /\ quadpack_python_function' = e.g.pyfun
           /\ quadpack_extra_arguments' = e.g.extra
           /\ quadpack_jmpbuf' = e.g.jmp
           /\ quadpack_ctypes_function' = e.g.ctypes
           /\ refcnt' = e.refcnt
           /\ pyerr' = e.pyerr
           /\ IF e.done = "no"
              THEN /\ frame' = <<[fr EXCEPT !.pc = @ + 1, !.store = e.store]>>
                   /\ UNCHANGED <<stack, last, deepEval>>
              ELSE /\ frame' = <<>>
                   /\ stack' = Append(stack, [kind |-> fr.kind, ok |-> e.done = "ok",
                                              store |-> e.store, pre |-> fr.pre])
                   /\ deepEval' = (Len(stack) > 0 /\ deepEval)
                   /\ last' = [op |-> InstallName(fr.kind),
                               ret |-> IF e.done = "ok" THEN NPY_SUCCEED ELSE NPY_FAIL,
                               in |-> LastIn(fr.kind, fr.in), calls |-> <<>>]
    /\ UNCHANGED <<heap, unwind, ooo>>

----------------------------------------------------------------------------
(* Inputs and specifications.                                              *)

\* Spec: the two adapters (multivariate and single-variable wrapper) nested
\* in stack order, with evaluations at every depth.
ZInputs == {<<f, na[1], na[2]>> : f \in {NULL, "typical", "funcwrapper"},
                                  na \in {<<0, NULL>>, <<1, "b1">>, <<2, "b2">>}}
YInputs == ScalarFuncs \cup {NULL}

\* SpecEval: the two adapters, more functions, and callers that rewrite
\* their buffer between evaluations.
ZEvalInputs == {<<f, na[1], na[2]>> : f \in {"typical", "sin2", "funcwrapper"},
                    na \in {<<0, NULL>>, <<0, "b2">>, <<1, "b2">>, <<2, "b2">>}}
YEvalInputs == ScalarFuncs

\* SpecAll: records of all four kinds nested in stack order.
ZAllInputs == {<<f, na[1], na[2]>> : f \in {NULL, "typical", "funcwrapper"},
                                     na \in {<<0, NULL>>, <<2, "b2">>}}
YAllInputs == ScalarFuncs
QAllInputs == {<<"pyfun", a, TRUE>> : a \in {NULL, "tup", "lst"}}
                 \cup {<<"pyfun", NULL, FALSE>>}
CAllInputs == CtypesObjects

Init ==
    /\ globalf = NULL
    /\ globalnargs = 0
    /\ globalargs = NULL
    /\ globalbasef = NULL
    /\ quadpack_python_function = NULL
    /\ quadpack_extra_arguments = NULL
    /\ quadpack_jmpbuf = "jmp0"
    /\ quadpack_ctypes_function = NULL
    /\ pyerr = FALSE
    /\ refcnt = [o \in PyObjects |-> 1]
    /\ heap = [b \in Buffers |-> [i \in 1..BufLen(b) |-> 0]]
    /\ stack = <<>>
    /\ last = NoResult
    /\ deepEval = FALSE
    /\ unwind = NoUnwind
    /\ frame = <<>>
    /\ ooo = <<>>

\* The foreign routine evaluates the integrand: through the multivariate
\* entry point at a point x, or through funcwrapper with an argument array.
FwInputs == {<<0, <<x>>>> : x \in Doubles}
               \cup {<<1, <<x, MaxVal - x>>>> : x \in Doubles}
Evaluate ==
    \/ \E x \in Doubles : call_c_multivariate(x)
    \/ \E fw \in FwInputs : funcwrapper_call(fw[1], fw[2])

Next ==
    \/ /\ Len(stack) < MaxDepth
       /\ \E z \in ZInputs : init_c_multivariate(z[1], z[2], z[3])
    \/ restore_c_multivariate(Len(stack))
    \/ /\ Len(stack) < MaxDepth
       /\ \E f \in YInputs : funcwrapper_init(f)
    \/ funcwrapper_restore(Len(stack))
    \/ Discard(Len(stack))
    \/ Evaluate

Spec == Init /\ [][Next]_vars

NextEval ==
    \/ /\ Len(stack) < EvalDepth
       /\ \E z \in ZEvalInputs : init_c_multivariate(z[1], z[2], z[3])
    \/ restore_c_multivariate(Len(stack))
    \/ /\ Len(stack) < EvalDepth
       /\ \E f \in YEvalInputs : funcwrapper_init(f)
    \/ funcwrapper_restore(Len(stack))
    \/ \E i \in 1..BufLen("b2"), v \in Doubles : CallerWrite("b2", i, v)
    \/ \E x \in Doubles : call_c_multivariate(x)

SpecEval == Init /\ [][NextEval]_vars

NextAll ==
    \/ /\ Len(stack) < AllDepth
       /\ \/ \E z \in ZAllInputs : init_c_multivariate(z[1], z[2], z[3])
          \/ \E f \in YAllInputs : funcwrapper_init(f)
          \/ \E q \in QAllInputs : quad_init_func(q[1], q[2], q[3])
          \/ \E c \in CAllInputs : init_ctypes_func(c)
    \/ restore_c_multivariate(Len(stack))
    \/ funcwrapper_restore(Len(stack))
    \/ \E ierr \in {NULL, "ierr"} : quad_restore_func(Len(stack), ierr)
    \/ restore_ctypes_func(Len(stack))
    \/ Discard(Len(stack))
    \/ Evaluate

SpecAll == Init /\ [][NextAll]_vars

\* SpecJmp: activations of Python integrands nested in stack order, each with
\* its own unwind target, with evaluations that may raise a fatal error.
QJmpInputs == {<<f, a, TRUE>> : f \in {"pyfun", "pyfun2"}, a \in {NULL, "tup", "lst"}}
                 \cup {<<"pyfun", NULL, FALSE>>}
\* Activations of C integrands, which evaluate no Python code, as innermost
\* activations.
ZJmpInputs == {<<"typical", 2, "b2">>}
CJmpInputs == {"ct_sin"}
NextJmp ==
    \/ /\ ~unwind.active
       /\ Len(stack) < JmpDepth
       /\ Len(stack) > 0 => Armed
       /\ \/ \E q \in QJmpInputs : quad_init_func(q[1], q[2], q[3])
          \/ \E z \in ZJmpInputs : init_c_multivariate(z[1], z[2], z[3])
          \/ \E c \in CJmpInputs : init_ctypes_func(c)
    \/ /\ ~unwind.active
       /\ setjmp
    \/ /\ ~unwind.active
       /\ \E x \in Doubles, raises \in BOOLEAN : quad_function(x, raises)
    \/ /\ ~unwind.active
       /\ Armed
       /\ \E ierr \in {NULL, "ierr"} : quad_restore_func(Len(stack), ierr)
    \/ /\ ~unwind.active
       /\ \/ restore_c_multivariate(Len(stack))
          \/ restore_ctypes_func(Len(stack))
          \/ Discard(Len(stack))
    \/ unwind_site

SpecJmp == Init /\ [][NextJmp]_vars

\* SpecOoo: the two adapters with restore called on any live record, in
\* stack order or not.
ZOooInputs == {<<"typical", 2, "b2">>, <<"sin2", 0, NULL>>}
YOooInputs == ScalarFuncs
NextOoo ==
    \/ /\ Len(stack) < OooDepth
       /\ \/ \E z \in ZOooInputs : init_c_multivariate(z[1], z[2], z[3])
          \/ \E f \in YOooInputs : funcwrapper_init(f)
    \/ \E i \in 1..Len(stack) : restore_c_multivariate(i)
    \/ \E i \in 1..Len(stack) : funcwrapper_restore(i)

SpecOoo == Init /\ [][NextOoo]_vars

\* SpecMix: pairs of the four kinds interleaved in any order; the records of
\* one kind are restored innermost first.
ZMixInputs == {<<"typical", 2, "b2">>, <<"sin2", 0, NULL>>}
YMixInputs == {"h_sin"}
QMixInputs == {<<"pyfun", "tup", TRUE>>, <<"pyfun2", NULL, TRUE>>}
CMixInputs == {"ct_sin"}
\* The position of the innermost record of a kind, 0 when there is none.
RECURSIVE InnermostOf(_, _)
InnermostOf(kind, k) ==
    IF k = 0 THEN 0
    ELSE IF stack[k].kind = kind THEN k
    ELSE InnermostOf(kind, k - 1)
NextMix ==
    \/ /\ Len(stack) < MixDepth
       /\ \/ \E z \in ZMixInputs : init_c_multivariate(z[1], z[2], z[3])
          \/ \E f \in YMixInputs : funcwrapper_init(f)
          \/ \E q \in QMixInputs : quad_init_func(q[1], q[2], q[3])
          \/ \E c \in CMixInputs : init_ctypes_func(c)
    \/ setjmp
    \/ restore_c_multivariate(InnermostOf("Z", Len(stack)))
    \/ funcwrapper_restore(InnermostOf("Y", Len(stack)))
    \/ \E ierr \in {NULL, "ierr"} :
          quad_restore_func(InnermostOf("Q", Len(stack)), ierr)
    \/ restore_ctypes_func(InnermostOf("C", Len(stack)))

SpecMix == Init /\ [][NextMix]_vars

\* SpecStep: installs of the four kinds executed statement by statement,
\* nested in stack order.
StepInputs ==
    {<<"Z", [f |-> z[1], n |-> z[2], args |-> z[3]]>> :
         z \in {<<NULL, 0, NULL>>, <<"typical", 2, "b2">>, <<"sin2", 0, NULL>>}}
      \cup {<<"Y", [f |-> f]>> : f \in ScalarFuncs}
      \cup {<<"C", [fun |-> c]>> : c \in {"ct_null", "ct_sin"}}
      \cup {<<"Q", [fun |-> "pyfun", arg |-> q[1], alloc_ok |-> q[2]]>> :
                q \in {<<NULL, TRUE>>, <<NULL, FALSE>>, <<"tup", TRUE>>,
                       <<"lst", TRUE>>}}
NextStep ==
    \/ /\ Len(stack) < StepDepth
       /\ \E k \in StepInputs : begin_install(k[1], k[2])
    \/ install_step
    \/ /\ frame = <<>>
       /\ \/ restore_c_multivariate(Len(stack))
          \/ funcwrapper_restore(Len(stack))
          \/ quad_restore_func(Len(stack), NULL)
          \/ restore_ctypes_func(Len(stack))

SpecStep == Init /\ [][NextStep]_vars

----------------------------------------------------------------------------
(* Properties.                                                             *)

ActiveTriple == <<globalf, globalnargs, globalargs>>
NewOf(r) == <<r.store.z_f1, r.store.z_nargs1, r.store.z_args1>>
PreviousOf(r) == <<r.store.z_f0, r.store.z_nargs0, r.store.z_args0>>
\* The position of the innermost successfully installed multivariate record
\* among the first k records, 0 when there is none.
RECURSIVE InnermostZ(_)
InnermostZ(k) ==
    IF k = 0 THEN 0
    ELSE IF stack[k].kind = "Z" /\ stack[k].ok THEN k
    ELSE InnermostZ(k - 1)

\* The three slots a Python activation owns, and their values in a snapshot.
QSlots == <<quadpack_python_function, quadpack_extra_arguments, quadpack_jmpbuf>>
QSlotsOf(snap) == <<snap.pyfun, snap.extra, snap.jmp>>

\* The slots of each kind of context, in the state and in a snapshot.
KindSlots(kind) ==
    CASE kind = "Z" -> <<globalf, globalnargs, globalargs>>
      [] kind = "Y" -> <<globalbasef>>
      [] kind = "C" -> <<quadpack_ctypes_function>>
      [] kind = "Q" -> QSlots
KindSlotsOf(kind, snap) ==
    CASE kind = "Z" -> <<snap.f, snap.nargs, snap.args>>
      [] kind = "Y" -> <<snap.basef>>
      [] kind = "C" -> <<snap.ctypes>>
      [] kind = "Q" -> QSlotsOf(snap)
KindOfOp(op) ==
    CASE op \in {"init_c_multivariate", "restore_c_multivariate"} -> "Z"
      [] op \in {"funcwrapper_init", "funcwrapper_restore"} -> "Y"
      [] op \in {"init_ctypes_func", "restore_ctypes_func"} -> "C"
      [] op \in {"quad_init_func", "quad_restore_func"} -> "Q"

\* C1: with install/restore pairs of both adapters nested in stack order and
\* evaluations at any depth, every step that releases a record (the
\* outermost one included) leaves globalf, globalnargs, globalargs and
\* globalbasef as they were just before that record's install.
C1_RoundTrip ==
    [][Len(stack') = Len(stack) - 1
         => <<globalf', globalnargs', globalargs', globalbasef'>>
              = <<stack[Len(stack)].pre.f, stack[Len(stack)].pre.nargs,
                  stack[Len(stack)].pre.args, stack[Len(stack)].pre.basef>>]_vars

\* The outermost record has just been restored, after an evaluation that ran
\* inside a nested pair.
C1_Witness ==
    /\ last.op \in {"restore_c_multivariate", "funcwrapper_restore"}
    /\ last.in[2]
    /\ Len(stack) = 0
    /\ deepEval

\* C2: a successfully installed multivariate record B saved exactly the new
\* half of the innermost successfully installed record A around it, and
\* whenever A is the innermost successful record (as it is again after B's
\* restore) the active triple is A's new half.
C2_Nesting ==
    /\ \A j \in 1..Len(stack) :
          (stack[j].kind = "Z" /\ stack[j].ok /\ InnermostZ(j - 1) # 0)
             => PreviousOf(stack[j]) = NewOf(stack[InnermostZ(j - 1)])
    /\ InnermostZ(Len(stack)) # 0
          => ActiveTriple = NewOf(stack[InnermostZ(Len(stack))])

\* B, installed successfully inside A, has just been restored; A's new half
\* differs from what was active before A.
C2_Witness ==
    /\ last.op = "restore_c_multivariate"
    /\ last.in[2]
    /\ Len(stack) >= 1
    /\ InnermostZ(Len(stack)) = Len(stack)
    /\ ActiveTriple = NewOf(stack[Len(stack)])
    /\ \A k \in 1..3 : NewOf(stack[Len(stack)])[k] # PreviousOf(stack[Len(stack)])[k]

\* C3 as stated: after any call of init_c_multivariate on a record the active
\* triple is the record's new half.
C3_AsStated ==
    last.op = "init_c_multivariate"
       => ActiveTriple = NewOf(stack[Len(stack)])

\* C3, amended: after a successful init_c_multivariate on a record the active
\* triple is the record's new half; after restore_c_multivariate on a record
\* it is the record's previous half, which still holds what was active just
\* before the install.
C3_Amended ==
    [][/\ (last'.op = "init_c_multivariate" /\ last'.ret = NPY_SUCCEED)
             => ActiveTriple' = NewOf(stack'[Len(stack')])
       /\ last'.op = "restore_c_multivariate"
             => /\ ActiveTriple' = PreviousOf(stack[last'.in[1]])
                /\ PreviousOf(stack[last'.in[1]])
                     = <<stack[last'.in[1]].pre.f, stack[last'.in[1]].pre.nargs,
                         stack[last'.in[1]].pre.args>>]_vars

\* A record has just been installed successfully inside another one, and
\* each slot of the active triple changed.
C3_Witness ==
    /\ last.op = "init_c_multivariate"
    /\ last.ret = NPY_SUCCEED
    /\ Len(stack) >= 2
    /\ ActiveTriple = NewOf(stack[Len(stack)])
    /\ \A k \in 1..3 : NewOf(stack[Len(stack)])[k] # PreviousOf(stack[Len(stack)])[k]

\* C4: an install that must fail (a null function for init_c_multivariate,
\* a ctypes object that resolves to a null pointer, extra arguments that are
\* not a tuple) returns NPY_FAIL, and no install that returns NPY_FAIL
\* changes globalf, globalnargs, globalargs, quadpack_ctypes_function,
\* quadpack_python_function or quadpack_extra_arguments.
C4_FailedInstallKeepsState ==
    [][/\ \/ last'.op = "init_c_multivariate" /\ last'.in[1] = NULL
          \/ last'.op = "init_ctypes_func"
                /\ get_ctypes_function_pointer(last'.in) = NULL
          \/ last'.op = "quad_init_func"
                /\ last'.in[2] # NULL /\ ~PyTuple_Check(last'.in[2])
          => last'.ret = NPY_FAIL
       /\ (/\ last'.op \in {"init_c_multivariate", "init_ctypes_func", "quad_init_func"}
           /\ last'.ret = NPY_FAIL)
          => UNCHANGED <<globalf, globalnargs, globalargs, quadpack_ctypes_function,
                         quadpack_python_function, quadpack_extra_arguments>>]_vars

\* init_c_multivariate has just failed inside the region of a successfully
\* installed record, whose context is still the active one.
C4_Witness ==
    /\ last.op = "init_c_multivariate"
    /\ last.ret = NPY_FAIL
    /\ Len(stack) = 2
    /\ stack[1].kind = "Z" /\ stack[1].ok
    /\ ActiveTriple = NewOf(stack[1])
    /\ ActiveTriple # NewOf(stack[2])

\* The active context can be evaluated: a function is installed and its
\* arity does not exceed the active parameter array.
ValidContext ==
    /\ globalf \in NaryFuncs
    /\ globalnargs >= 0
    /\ globalnargs <= Len(Deref(globalargs))
\* [x] ++ p[0..n)
ExpectedArray(x) == <<x>> \o SubSeq(Deref(globalargs), 1, globalnargs)

\* C5: in a valid context of arity n, call_c_multivariate(x) invokes the
\* active n-ary function exactly once, with n and the array [x] ++ p[0..n),
\* and returns what that invocation returns.
C5_EvaluateAt ==
    (last.op = "call_c_multivariate" /\ ValidContext)
       => /\ Len(last.calls) >= 1
          /\ last.calls[1] = [fn |-> globalf, n |-> globalnargs,
                              a |-> ExpectedArray(last.in)]
          /\ Cardinality({i \in 1..Len(last.calls) : last.calls[i].fn \in NaryFuncs}) = 1
          /\ [val |-> last.ret, calls |-> last.calls]
                \in CallNary(globalf, globalnargs, ExpectedArray(last.in))

\* typical was evaluated with arity 2 at x = 0 over the parameters [1, 0].
C5_Witness ==
    /\ last.op = "call_c_multivariate"
    /\ globalf = "typical" /\ globalnargs = 2
    /\ last.calls = <<[fn |-> "typical", n |-> 2, a |-> <<0, 1, 0>>]>>
    /\ last.ret = <<"typical", 0, 1, 0>>

\* C6: init_c_multivariate with a non-null function and arity 0 succeeds
\* whatever the parameter array is (null included), and an evaluation in a
\* context of arity 0 passes the one-element array [x] and reads nothing of
\* the parameter array.
C6_ArityZero ==
    /\ (last.op = "init_c_multivariate" /\ last.in[1] # NULL /\ last.in[2] = 0)
          => /\ last.ret = NPY_SUCCEED
             /\ ActiveTriple = <<last.in[1], 0, last.in[3]>>
    /\ (last.op = "call_c_multivariate" /\ globalf \in NaryFuncs /\ globalnargs = 0)
          => /\ Len(last.calls) >= 1
             /\ last.calls[1] = [fn |-> globalf, n |-> 0, a |-> <<last.in>>]

\* sin2 was evaluated with arity 0 and a null parameter array.
C6_Witness ==
    /\ last.op = "call_c_multivariate"
    /\ globalf = "sin2" /\ globalnargs = 0 /\ globalargs = NULL
    /\ last.ret = <<"sin2", last.in>>

\* An evaluation at any point passes the current contents of the buffer.
ReadsCurrentBuffer ==
    ValidContext
       => \A x \in Doubles :
             CallCMultivariate(x)
                = CallNary(globalf, globalnargs,
                           <<x>> \o SubSeq(IF globalargs = NULL THEN <<>>
                                            ELSE heap[globalargs],
                                            1, globalnargs))

\* C7: init_c_multivariate and restore_c_multivariate leave the callers'
\* buffers untouched, the adapter keeps the buffer's address only, and in
\* every valid context (in particular right after the caller rewrote the
\* active buffer) an evaluation at any x passes the buffer's current
\* contents.
C7_ByReference ==
    [][/\ last'.op \in {"init_c_multivariate", "restore_c_multivariate"}
             => heap' = heap
       /\ (last'.op = "init_c_multivariate" /\ last'.ret = NPY_SUCCEED)
             => globalargs' = last'.in[3]
       /\ ReadsCurrentBuffer'
       /\ (last'.op = "call_c_multivariate" /\ ValidContext')
             => SubSeq(last'.calls[1].a, 2, globalnargs' + 1)
                   = SubSeq(IF globalargs' = NULL THEN <<>> ELSE heap'[globalargs'],
                            1, globalnargs')]_vars

\* The caller has just rewritten the buffer of the active context, installed
\* with arity 2, so that it differs from its contents at install time.
C7_Witness ==
    /\ last.op = "caller_write"
    /\ Len(stack) = 1 /\ stack[1].kind = "Z" /\ stack[1].ok
    /\ globalargs = "b2" /\ globalnargs = 2
    /\ heap["b2"] = <<1, 0>>

\* Argument arrays funcwrapper can be handed.
ArgArrays == UNION {[1..k -> Doubles] : k \in 1..2}

\* C8: with a scalar function active, funcwrapper(n, args) returns that
\* function applied to args[0], for every n and every args; the call made
\* last did so too.
C8_WrapperUsesFirst ==
    /\ globalbasef # NULL
          => \A n \in 0..2, a \in ArgArrays :
                {o.val : o \in funcwrapper(n, a)} = {<<globalbasef, a[1]>>}
    /\ (last.op = "funcwrapper" /\ globalbasef # NULL)
          => last.ret = <<globalbasef, last.in[2][1]>>

\* funcwrapper was called with n = 1 and an array whose second element
\* differs from its first.
C8_Witness ==
    /\ last.op = "funcwrapper"
    /\ globalbasef = "h_sin"
    /\ last.in[1] = 1
    /\ last.in[2][2] # last.in[2][1]
    /\ last.ret = <<"h_sin", last.in[2][1]>>

RECURSIVE InnermostY(_)
InnermostY(k) ==
    IF k = 0 THEN 0
    ELSE IF stack[k].kind = "Y" THEN k
    ELSE InnermostY(k - 1)

\* C9: every funcwrapper_init succeeded, saved the wrapper function active
\* before it and installed its own; the active wrapper function is the one of
\* the innermost wrapper record, and a funcwrapper evaluation uses it.
C9_InnermostWrapper ==
    /\ \A j \in 1..Len(stack) :
          stack[j].kind = "Y"
             => stack[j].ok /\ stack[j].store.y_func0 = stack[j].pre.basef
    /\ last.op = "funcwrapper_init" => globalbasef = last.in
    /\ InnermostY(Len(stack)) # 0
          => /\ globalbasef = stack[InnermostY(Len(stack))].store.y_func1
             /\ (last.op = "funcwrapper" /\ globalbasef # NULL)
                   => last.ret = <<stack[InnermostY(Len(stack))].store.y_func1,
                                   last.in[2][1]>>

\* With the wrapper for h_cos installed inside the wrapper for h_sin, an
\* evaluation used h_cos.
C9_Witness ==
    /\ Len(stack) = 2
    /\ stack[1].kind = "Y" /\ stack[1].store.y_func1 = "h_sin"
    /\ stack[2].kind = "Y" /\ stack[2].store.y_func1 = "h_cos"
    /\ last.op = "funcwrapper"
    /\ last.ret = <<"h_cos", 0>>

\* C10: with funcwrapper installed as the active n-ary function over a
\* scalar function h, call_c_multivariate(x) returns h applied to x, for
\* every arity the active parameter array covers.
C10_Chained ==
    (/\ last.op = "call_c_multivariate"
     /\ globalf = "funcwrapper"
     /\ globalbasef # NULL
     /\ ValidContext)
       => last.ret = <<globalbasef, last.in>>

\* h_cos driven through funcwrapper installed with arity 2, evaluated at a
\* point that differs from the first parameter.
C10_Witness ==
    /\ Len(stack) = 2
    /\ stack[1].kind = "Y" /\ stack[1].store.y_func1 = "h_cos"
    /\ stack[2].kind = "Z" /\ NewOf(stack[2]) = <<"funcwrapper", 2, "b2">>
    /\ last.op = "call_c_multivariate"
    /\ last.in # heap["b2"][1]
    /\ last.ret = <<"h_cos", last.in>>

C12_UnwindTarget ==
    [][/\ \A j \in 1..Len(stack') :
             stack'[j].kind = "Q" => stack'[j].store.jmp = stack'[j].pre.jmp
       /\ last'.op = "setjmp"
             => /\ stack[Len(stack)].store.jmp = quadpack_jmpbuf
                /\ quadpack_jmpbuf' # quadpack_jmpbuf
       /\ last'.op \in {"quad_restore_func", "restore_c_multivariate",
                         "restore_ctypes_func"}
             => quadpack_jmpbuf' = stack[last'.in[1]].pre.jmp]_vars

\* The activation nested inside the outermost one has been restored without
\* any unwind, and the outermost activation's target is current again.
C12_Witness ==
    /\ last.op = "quad_restore_func"
    /\ last.in[1] = 2
    /\ unwind = NoUnwind
    /\ Len(stack) = 1
    /\ quadpack_jmpbuf = Target(1)
    /\ stack[1].store.jmp = "jmp0"

\* The operations that install or restore a context.
InstallRestoreOps ==
    {"init_c_multivariate", "restore_c_multivariate", "funcwrapper_init",
     "funcwrapper_restore", "quad_init_func", "quad_restore_func",
     "init_ctypes_func", "restore_ctypes_func"}

\* C13: a step of call_c_multivariate or funcwrapper leaves every
\* process-wide slot, every storage record and every parameter buffer as it
\* was, and every step that changes a process-wide slot is an install or a
\* restore.
C13_EvalReadsOnly ==
    [][/\ last'.op \in {"call_c_multivariate", "funcwrapper"}
             => /\ globals' = globals
                /\ stack' = stack
                /\ heap' = heap
       /\ globals' # globals => last'.op \in InstallRestoreOps]_vars

\* typical has just been evaluated over two parameters inside a nested
\* activation, and the wrapper has a scalar function installed.
C13_Witness ==
    /\ last.op = "call_c_multivariate"
    /\ Len(stack) >= 2
    /\ ActiveTriple = <<"typical", 2, "b2">>
    /\ globalbasef # NULL
    /\ Len(last.calls) = 1
    /\ last.in # heap["b2"][1]

\* The previous half of a record of a kind, and the values the install fr is
\* to put in the slots of its kind.
PrevHalf(kind, store) ==
    CASE kind = "Z" -> <<store.z_f0, store.z_nargs0, store.z_args0>>
      [] kind = "Y" -> <<store.y_func0>>
      [] kind = "C" -> <<store.global0>>
      [] kind = "Q" -> <<store.global0, store.global1, store.jmp>>
NewSlots(fr) ==
    CASE fr.kind = "Z" -> <<fr.in.f, fr.in.n, fr.in.args>>
      [] fr.kind = "Y" -> <<fr.in.f>>
      [] fr.kind = "C" -> <<get_ctypes_function_pointer(fr.in.fun)>>
      [] fr.kind = "Q" -> <<fr.in.fun, IF fr.in.arg = NULL THEN "empty" ELSE fr.in.arg,
                            fr.pre.jmp>>
\* While an install is in progress: every slot of its kind holds its
\* pre-install or its new value, every other slot its pre-install value, and
\* once a slot differs from its pre-install value the previous half of the
\* record is the complete pre-install context.
MidInstall ==
    frame # <<>>
       => /\ \A k \in 1..Len(KindSlots(frame[1].kind)) :
                KindSlots(frame[1].kind)[k]
                   \in {KindSlotsOf(frame[1].kind, frame[1].pre)[k],
                        NewSlots(frame[1])[k]}
          /\ \A kind \in {"Z", "Y", "C", "Q"} \ {frame[1].kind} :
                KindSlots(kind) = KindSlotsOf(kind, frame[1].pre)
          /\ KindSlots(frame[1].kind) # KindSlotsOf(frame[1].kind, frame[1].pre)
                => PrevHalf(frame[1].kind, frame[1].store)
                      = KindSlotsOf(frame[1].kind, frame[1].pre)

\* C14: in each of the four installs the previous half of the record is
\* complete before the first global is overwritten; at every intermediate
\* step each global holds its pre-install or its new value, and whenever one
\* holds a new value the record holds the complete pre-install context; on
\* return the record holds that context, and the globals of the kind hold
\* the new values after NPY_SUCCEED and the pre-install ones after NPY_FAIL.
C14_CopyBeforeOverwrite ==
    [][/\ MidInstall'
       /\ (frame # <<>> /\ globals' # globals)
             => PrevHalf(frame[1].kind, frame[1].store)
                   = KindSlotsOf(frame[1].kind, frame[1].pre)
       /\ (frame # <<>> /\ frame' = <<>>)
             => /\ PrevHalf(frame[1].kind, stack'[Len(stack')].store)
                      = KindSlotsOf(frame[1].kind, frame[1].pre)
                /\ \A kind \in {frame[1].kind} :
                      KindSlots(kind)'
                         = IF stack'[Len(stack')].ok THEN NewSlots(frame[1])
                           ELSE KindSlotsOf(kind, frame[1].pre)]_vars

\* init_c_multivariate, called inside a successful activation, has set
\* globalf and globalnargs and is about to set globalargs.
C14_Witness ==
    /\ frame # <<>>
    /\ frame[1].kind = "Z"
    /\ Len(stack) = 1 /\ stack[1].kind = "Z" /\ stack[1].ok
    /\ globalf = frame[1].in.f /\ globalf # frame[1].pre.f
    /\ globalnargs = frame[1].in.n /\ globalnargs # frame[1].pre.nargs
    /\ globalargs = frame[1].pre.args /\ globalargs # frame[1].in.args
    /\ PrevHalf("Z", frame[1].store) = NewOf(stack[1])

\* C15: restore on a record A while a record B installed after it is alive
\* is carried out like any other restore and raises no error; when B was
\* installed successfully inside the successful A (so that B saved A's new
\* half, as every record does while restores came in stack order) and B is
\* restored next, the active context is A's new half, not what was active
\* before A; likewise for the wrapper records.
C15_OutOfOrder ==
    [][/\ ooo = <<>>
             => \A j \in 1..Len(stack) :
                   (stack[j].kind = "Z" /\ stack[j].ok /\ InnermostZ(j - 1) # 0)
                      => PreviousOf(stack[j]) = NewOf(stack[InnermostZ(j - 1)])
       /\ (last'.op = "restore_c_multivariate" /\ last'.in[1] < Len(stack))
             => /\ last'.ret = "-"
                /\ ActiveTriple' = PreviousOf(stack[last'.in[1]])
                /\ Len(stack') = Len(stack) - 1
       /\ (last'.op = "funcwrapper_restore" /\ last'.in[1] < Len(stack))
             => /\ last'.ret = "-"
                /\ globalbasef' = stack[last'.in[1]].store.y_func0
                /\ Len(stack') = Len(stack) - 1
       /\ (/\ last.op = "restore_c_multivariate" /\ last.in[1] <= Len(stack)
           /\ last.in[2]
           /\ last'.op = "restore_c_multivariate" /\ last'.in[1] = last.in[1]
           /\ last'.in[2]
           /\ PreviousOf(stack[last.in[1]]) = NewOf(ooo[1]))
             => ActiveTriple' = NewOf(ooo[1])
       /\ (/\ last.op = "funcwrapper_restore" /\ last.in[1] <= Len(stack)
           /\ last'.op = "funcwrapper_restore" /\ last'.in[1] = last.in[1]
           /\ stack[last.in[1]].store.y_func0 = ooo[1].store.y_func1)
             => globalbasef' = ooo[1].store.y_func1]_vars

\* A was installed in the initial context, B inside A, A was restored first
\* and B next: no record is left and A's new half is the active context.
C15_Witness ==
    /\ Len(stack) = 0
    /\ last.op = "restore_c_multivariate"
    /\ last.in[2]
    /\ Len(ooo) = 1
    /\ ooo[1].kind = "Z" /\ ooo[1].ok
    /\ ooo[1].pre.f = NULL
    /\ ActiveTriple = NewOf(ooo[1])
    /\ ActiveTriple # <<ooo[1].pre.f, ooo[1].pre.nargs, ooo[1].pre.args>>

\* C16: quad_restore_func with an ierr and an error pending stores 80 and
\* clears the error; with an ierr and no error pending it leaves the caller's
\* int alone; without an ierr it leaves the pending-error state alone; in
\* every case the saved function, extra arguments and unwind target are
\* written back.  A restore that follows a reporting restore reports nothing.
C16_ReportOnce ==
    [][last'.op = "quad_restore_func"
         => /\ (last'.in[3] # NULL /\ pyerr) => (last'.ret = 80 /\ ~pyerr')
            /\ (last'.in[3] # NULL /\ ~pyerr) => (last'.ret = 0 /\ ~pyerr')
            /\ last'.in[3] = NULL => (last'.ret = 0 /\ pyerr' = pyerr)
            /\ QSlots' = <<stack[last'.in[1]].store.global0,
                           stack[last'.in[1]].store.global1,
                           stack[last'.in[1]].store.jmp>>
            /\ (last.op = "quad_restore_func" /\ last.ret = 80) => last'.ret = 0]_vars

\* An activation nested inside another returned normally while an error was
\* pending, and its restore reported and cleared it.
C16_Witness ==
    /\ last.op = "quad_restore_func"
    /\ last.in[3] # NULL
    /\ last.ret = 80
    /\ ~pyerr
    /\ unwind = NoUnwind
    /\ Len(stack) = 1

\* C17: while a successfully installed multivariate record is alive, with
\* successful and failed installs and their restores nested in stack order
\* inside its region, globalf is not null, and an evaluation made there
\* invokes the active function.
C17_NonNullInRegion ==
    InnermostZ(Len(stack)) # 0
       => /\ globalf # NULL
          /\ last.op = "call_c_multivariate"
                => (Len(last.calls) >= 1 /\ last.calls[1].fn = globalf)

\* An evaluation ran inside a protected region right after an install nested
\* in it had failed.
C17_Witness ==
    /\ last.op = "call_c_multivariate"
    /\ Len(stack) = 2
    /\ stack[1].kind = "Z" /\ stack[1].ok
    /\ stack[2].kind = "Z" /\ ~stack[2].ok
    /\ last.calls[1].fn = stack[1].store.z_f1

\* C18: restore_c_multivariate or restore_ctypes_func on a record whose
\* install failed changes no process-wide slot: the slots stay as they were
\* just before the failed install.
C18_RestoreAfterFailure ==
    [][(/\ last'.op \in {"restore_c_multivariate", "restore_ctypes_func"}
        /\ ~last'.in[2])
          => /\ globals' = globals
             /\ Snapshot' = stack[last'.in[1]].pre]_vars

\* restore_ctypes_func has just run on a record whose install failed inside
\* a successful ctypes activation, whose function is still the active one.
C18_Witness ==
    /\ last.op = "restore_ctypes_func"
    /\ ~last.in[2]
    /\ Len(stack) = 1
    /\ stack[1].kind = "C" /\ stack[1].ok
    /\ quadpack_ctypes_function = stack[1].store.global1

\* C19: an install or restore of one kind leaves the slots of the three
\* other kinds unchanged, and with pairs of different kinds interleaved in any
\* order (records of one kind restored innermost first) every restore leaves
\* the slots of its kind as they were just before the paired install.
C19_KindsIndependent ==
    [][last'.op \in InstallRestoreOps
         => \A kind \in {"Z", "Y", "C", "Q"} :
               /\ kind # KindOfOp(last'.op) => KindSlots(kind)' = KindSlots(kind)
               /\ (/\ kind = KindOfOp(last'.op)
                   /\ last'.op \in {"restore_c_multivariate", "funcwrapper_restore",
                                     "restore_ctypes_func", "quad_restore_func"})
                     => KindSlots(kind)' = KindSlotsOf(kind, stack[last'.in[1]].pre)]_vars

\* A Python activation with its unwind target armed was restored while a
\* multivariate record installed after it stays active.
C19_Witness ==
    /\ last.op = "quad_restore_func"
    /\ Len(stack) = 1
    /\ stack[1].kind = "Z"
    /\ stack[1].pre.jmp # "jmp0"
    /\ stack[1].pre.pyfun # NULL
    /\ QSlots = <<NULL, NULL, "jmp0">>
    /\ ActiveTriple = NewOf(stack[1])

\* C20: the reference count of every extra-arguments object is its initial
\* count plus one for each live successful Python activation that holds it:
\* a successful quad_init_func takes one reference, its quad_restore_func
\* gives it back (for the empty tuple made for an absent arg too), and a
\* quad_init_func that fails leaves the counts as they were.
C20_RefBalance ==
    \A o \in PyObjects :
       refcnt[o] = 1 + Cardinality({j \in 1..Len(stack) :
                                       /\ stack[j].kind = "Q"
                                       /\ stack[j].ok
                                       /\ stack[j].store.arg = o})

\* The outermost Python activation, installed successfully, has just been
\* restored after an install failed, and every count is at its initial value.
C20_Witness ==
    /\ last.op = "quad_restore_func"
    /\ last.in[2]
    /\ last.in[3] = NULL
    /\ pyerr
    /\ unwind = NoUnwind
    /\ Len(stack) = 0
    /\ \A o \in PyObjects : refcnt[o] = 1

=============================================================================
